---- MODULE Spec2Model ----
(***************************************************************************)
(* Model of the trip planner of driver_log/views.py (TripViewSet.create):  *)
(* the milestone list, the day-by-day duty segment loop and the summary.   *)
(*                                                                         *)
(* Numbers.  The source computes in floating point miles and hours.  The   *)
(* model uses exact integers on a grid on which every quantity of the      *)
(* planner is a whole number: distances in units of 1/12 mile and times in *)
(* ticks of 1/11 minute, so that one unit is driven in exactly one tick at *)
(* 55 mph.  The clock times stored in a LogEntry are whole minutes         *)
(* (time(t.hour, t.minute) drops the seconds), modelled by Clock.          *)
(***************************************************************************)
EXTENDS Integers, Sequences, FiniteSets, TLC

\* ---------------------------------------------------------------- units
driving_speed == 55                                 \* mph

RECURSIVE GCD(_, _)
GCD(a, b) == IF b = 0 THEN a ELSE GCD(b, a % b)

\* The coarsest grid on which a minute of driving is a whole number of
\* distance units and a distance unit takes a whole number of ticks:
\* 12 units per mile, 11 ticks per minute.
UnitsPerMile == 60 \div GCD(driving_speed, 60)
TicksPerHour == driving_speed * UnitsPerMile
TicksPerMinute == TicksPerHour \div 60
Miles(m) == m * UnitsPerMile

\* ------------------------------------------------------------ constants
daily_work_time == (875 * TicksPerHour) \div 100    \* 8.75 hours
refuel_stop_time == TicksPerHour \div 4             \* 0.25 hours
loading_stop_time == TicksPerHour                   \* 1.0 hours
fuel_interval_miles == 1000
FallbackMiles == 50                                 \* "return 50.0"
OffDutyEnd == 8 * TicksPerHour                      \* time(8, 0)
DutyWindowStartLate == 9 * TicksPerHour
DutyWindowStart == 8 * TicksPerHour                 \* datetime(.., 8, 0)
OffEndMinute == 23 * 60 + 59                        \* time(23, 59)

\* --------------------------------------------------------------- bounds
\* Inputs are drawn from a few hand-picked distances (the boundary cases
\* of the planner) plus a regular grid of GridStepMiles up to MaxGrid steps.
MaxGrid == 3
GridStepMiles == 275

\* Answers of the Distance Matrix call that are not a distance:
\* requests.get or response.json raises, the status is not OK, the
\* distance text does not parse as a number.
FAIL == 0 - 1
BadStatus == 0 - 2
BadText == 0 - 3

GridDistances == {Miles(k * GridStepMiles) : k \in 0..MaxGrid}

\* Results the Distance Provider can give for start -> pickup.
Leg1Choices == {FAIL, BadStatus, BadText, 0, 6, Miles(50), Miles(400), Miles(470), Miles(1000),
                Miles(1500)} \cup GridDistances
\* Results the Distance Provider can give for pickup -> dropoff.
Leg2Choices == {FAIL, BadStatus, BadText, 0, Miles(5), Miles(50), Miles(1000), Miles(2450)}
\* distance_meters * 0.000621371 of a request without pickup.  5775 units
\* are 481.25 miles, the distance of one full daily budget.
DirectChoices == {0, Miles(100), Miles(440), 5775, Miles(1000), Miles(2000),
                  Miles(2500)} \cup GridDistances

Requests ==
    [has_pickup : {TRUE}, leg1 : Leg1Choices, leg2 : Leg2Choices, direct : {0}]
      \cup
    [has_pickup : {FALSE}, leg1 : {FAIL}, leg2 : {FAIL}, direct : DirectChoices]

\* Requests on which the Trip fields, the hints and the Maps service
\* are varied.
ProbeRequests ==
    { [has_pickup |-> FALSE, leg1 |-> FAIL, leg2 |-> FAIL, direct |-> Miles(100)],
      [has_pickup |-> TRUE, leg1 |-> FAIL, leg2 |-> BadText, direct |-> 0],
      [has_pickup |-> TRUE, leg1 |-> Miles(400), leg2 |-> Miles(1000),
       direct |-> 0] }

\* Trip fields of the request body; valid is the verdict of
\* serializer.is_valid on the required fields.
TripDefaults ==
    [is_property_carrying |-> TRUE, adverse_conditions |-> FALSE,
     service_time_minutes |-> 60, valid |-> TRUE]
TripFieldChoices ==
    [is_property_carrying : BOOLEAN, adverse_conditions : BOOLEAN,
     service_time_minutes : {30, 60}, valid : BOOLEAN]

\* Planning hints: well formed, a non-numeric duration or distance, or
\* a start date that is not an ISO date.
HintChoices == {"ok", "bad_number", "bad_date"}

\* Line 281: the start date hint, as days from the current date;
\* NoHint when the request names none, and date.today() is taken.
Today == 0
NoHint == 0 - 1
DateHintChoices == {NoHint, Today, Today + 3}

\* Line 282: the local start time hint; "" when the request names none.
TimeHintChoices == {"", "06:30", "13:45", "noon", "25:00"}

\* The Maps service: whether GOOGLE_MAPS_API_KEY is set, and what the
\* geocoding and the directions calls do (answer, answer with an error
\* status, raise).
MapsUp == [api_key |-> TRUE, geocode |-> "ok", directions |-> "ok"]
CallChoices == {"ok", "error", "raise"}
MapsChoices ==
    [api_key : BOOLEAN, geocode : CallChoices, directions : CallChoices]

\* ------------------------------------------------------ pure functions
Returned(v) == [raised |-> FALSE, kind |-> "", value |-> v]
Raised(kind) == [raised |-> TRUE, kind |-> kind, value |-> 0]

\* Lines 17-43 of get_pickup_distance_miles, inside the try.
LookupBody(api_key, outcome) ==
    IF ~ api_key THEN Returned(Miles(FallbackMiles))
    ELSE IF outcome = FAIL THEN Raised("request")
    ELSE IF outcome = BadStatus THEN Returned(Miles(FallbackMiles))
    ELSE IF outcome = BadText THEN Raised("value")
    ELSE Returned(outcome)

\* Lines 45-47: except Exception.
LookupCatchRequestOnly(r) ==
    IF r.raised /\ r.kind = "request" THEN Returned(Miles(FallbackMiles))
    ELSE r
LookupCatch(r) ==
    IF r.raised THEN Returned(Miles(FallbackMiles)) ELSE r

\* get_pickup_distance_miles: the parsed API distance, or 50.0 on any
\* failure (no key, exception, non-OK status, unparseable text).
get_pickup_distance_miles(api_key, outcome) ==
    LookupCatch(LookupBody(api_key, outcome))

\* f"{distance_miles:.1f}": tenths of a mile, ties to the even tenth
\* (every tie on this grid is a multiple of a quarter mile, which a
\* float holds exactly).
Tenths(d) ==
    LET q == (d * 10) \div UnitsPerMile
        r == (d * 10) % UnitsPerMile
    IN IF 2 * r > UnitsPerMile \/ (2 * r = UnitsPerMile /\ q % 2 = 1)
       THEN q + 1 ELSE q

\* A location name: the generic "Location at X miles", an address of
\* the request handed back unchanged, or a city found by geocoding.
GenericLabel(d) == [kind |-> "generic", tenths |-> Tenths(d)]
AddressLabel(which) == [kind |-> which \o "_address", tenths |-> 0]
CityLabel(which) == [kind |-> which \o "_city", tenths |-> 0]
RouteCityLabel(d) == [kind |-> "route_city", tenths |-> Tenths(d)]

\* get_city_state_from_address: the city of the address, or the address
\* itself when geocoding answers with an error or raises.
get_city_state_from_address(env, which) ==
    IF env.geocode = "ok" THEN Returned(CityLabel(which))
    ELSE Returned(AddressLabel(which))

\* Lines 112-262: between the ends of the route; the directions call,
\* then reverse geocoding of the step that holds the distance.
RouteBody(env, d) ==
    IF env.directions = "raise" THEN Raised("request")
    ELSE IF env.directions = "error" THEN Returned(GenericLabel(d))
    ELSE IF env.geocode = "raise" THEN Raised("request")
    ELSE IF env.geocode = "error" THEN Returned(GenericLabel(d))
    ELSE Returned(RouteCityLabel(d))

\* Lines 99-262 of get_location_name_from_route, inside the try.
NameBody(env, d, total) ==
    IF ~ env.api_key THEN Returned(GenericLabel(d))
    ELSE IF d <= 0 THEN get_city_state_from_address(env, "start")
    ELSE IF d >= total THEN get_city_state_from_address(env, "dropoff")
    ELSE RouteBody(env, d)

\* Lines 264-266: except Exception.
NameNoCatch(r, d) == r
NameCatch(r, d) == IF r.raised THEN Returned(GenericLabel(d)) ELSE r

get_location_name_from_route(env, d, total) ==
    NameCatch(NameBody(env, d, total), d)

\* Lines 281 and 379: the hinted date, or the current date.
StartDate(hint) == IF hint = NoHint THEN Today ELSE hint

\* Lines 282 and 375-378: hh and mm of the hint, 08:00 when the hint is
\* absent or is not two integers around a colon.
ParseClock(hint) ==
    LET text == IF hint = "" THEN "08:00" ELSE hint
    IN CASE text = "06:30" -> [hh |-> 6, mm |-> 30]
         [] text = "13:45" -> [hh |-> 13, mm |-> 45]
         [] text = "25:00" -> [hh |-> 25, mm |-> 0]
         [] OTHER -> [hh |-> 8, mm |-> 0]

\* Line 380: datetime(year, month, day, hh, mm) raises ValueError
\* outside 00:00..23:59.
StartDtRaises(clock) == clock.hh > 23 \/ clock.mm > 59

\* Line 380: start_dt, as a date and the minute of that day.
StartDt(date_hint, time_hint) ==
    [date |-> StartDate(date_hint),
     minute |-> ParseClock(time_hint).hh * 60 + ParseClock(time_hint).mm]

\* Line 381: day_cursor starts at the date of start_dt.
FirstDay(date_hint, time_hint) == StartDt(date_hint, time_hint).date

\* Lines 708-709: the day cursor moves on by one calendar day.
AdvanceDayStuck(d) == d
AdvanceDay(d) == d + 1

\* distance / driving_speed, in ticks.
DriveTimeAtSixty(d) == (d * TicksPerHour) \div (60 * UnitsPerMile)
DriveTime(d) == (d * TicksPerHour) \div (driving_speed * UnitsPerMile)

DistanceForStopped(ticks) == 0

\* remaining_time_today * driving_speed, in units.
DistanceFor(ticks) == (ticks * driving_speed * UnitsPerMile) \div TicksPerHour

\* time(t.hour, t.minute): minutes since midnight, seconds dropped.
Clock(ticks) == (ticks \div TicksPerMinute) % (24 * 60)

\* floor(total_distance_miles / fuel_interval_miles)
EstimatedFuelStops(total) == total \div Miles(fuel_interval_miles)

Milestone(type, distance, time) ==
    [type |-> type, distance |-> distance, time |-> time]

PickupMilestones(s2p) ==
    IF s2p > 0 THEN << Milestone("pickup", s2p, loading_stop_time) >>
    ELSE << >>

FuelCandidatesShort(total) ==
    [i \in 1..(EstimatedFuelStops(total) - 1) |->
        Milestone("fuel", i * Miles(fuel_interval_miles), refuel_stop_time)]

FuelCandidates(total) ==
    [i \in 1..EstimatedFuelStops(total) |->
        Milestone("fuel", i * Miles(fuel_interval_miles), refuel_stop_time)]

FuelKeepAtTotal(total, m) == m.distance <= total
FuelKeep(total, m) == m.distance < total

FuelMilestones(total) ==
    SelectSeq(FuelCandidates(total), LAMBDA m : FuelKeep(total, m))

RECURSIVE InsertBeforeEqual(_, _)
InsertBeforeEqual(x, s) ==
    IF s = << >> THEN << x >>
    ELSE IF Head(s).distance < x.distance
         THEN << Head(s) >> \o InsertBeforeEqual(x, Tail(s))
         ELSE << x >> \o s

\* list.sort(key=distance): stable insertion of x into a sorted sequence.
RECURSIVE InsertByDistance(_, _)
InsertByDistance(x, s) ==
    IF s = << >> THEN << x >>
    ELSE IF Head(s).distance <= x.distance
         THEN << Head(s) >> \o InsertByDistance(x, Tail(s))
         ELSE << x >> \o s

Unsorted(s) == s

RECURSIVE SortByDistance(_)
SortByDistance(s) ==
    IF s = << >> THEN << >>
    ELSE InsertByDistance(s[Len(s)], SortByDistance(SubSeq(s, 1, Len(s) - 1)))

BuildMilestones(s2p, total) ==
    SortByDistance(PickupMilestones(s2p) \o FuelMilestones(total)
                     \o << Milestone("dropoff", total, loading_stop_time) >>)

\* A LogEntry as the planner builds it.  distance_driven is passed only
\* for ON entries (as 0); every other entry keeps the model default 0.
LogEntry(date, status, from, to, remarks, mdist) ==
    [log_sheet_date |-> date, duty_status |-> status,
     start_time |-> Clock(from), end_time |-> Clock(to),
     distance_driven |-> 0, remarks |-> remarks, milestone_distance |-> mdist]

Progress(date, from, to, daily, cumulative) ==
    [date |-> date, start_location |-> from, end_location |-> to,
     daily_distance |-> daily, cumulative_distance |-> cumulative]

NoMilestone == Milestone("none", 0, 0)

\* ---------------------------------------------------------------- state
VARIABLES
    req,                      \* the request and the provider's answers
    pc,                       \* position in TripViewSet.create
    start_to_pickup_miles,
    total_distance_miles,
    estimated_fuel_stops,
    milestones,
    segments,                 \* LogEntry objects built so far
    day_index,                \* day_cursor, as days since the start date
    t,                        \* wall clock cursor of the day, in ticks
    remaining_time_today,
    daily_distance_covered,
    total_distance_covered,
    milestone_index,          \* 1-based index of the next milestone
    milestone,                \* the loop variable of the milestone loop
    daily_progress,
    current_location,         \* name of the place the day starts at
    trip_fields,              \* the Trip fields of the request body
    hints,                    \* the planning hints of the request body
    start_date_hint,          \* start_date_iso of the request body
    start_time_hint,          \* start_time_local of the request body
    maps,                     \* what the Google Maps service answers
    request_no,               \* number of the request being served
    trip_id,                  \* pk of the Trip of this request, 0 if none
    trips,                    \* table of Trip rows, by pk
    log_entries,              \* table of LogEntry rows, by trip pk
    milestone_log,            \* history: the milestone list of each run
    deferred,                 \* history: milestones postponed to a later day
    observed                  \* what a concurrent GET of the trip last saw

requestVars == << req, trip_fields, hints, start_date_hint, start_time_hint,
                 maps, request_no >>

inputVars == << requestVars, trip_id, start_to_pickup_miles,
                total_distance_miles, estimated_fuel_stops, milestones >>

dbVars == << trips, log_entries, milestone_log, observed >>

auxVars == << current_location, deferred >>

vars == << inputVars, dbVars, auxVars, pc, segments, day_index, t,
           remaining_time_today, daily_distance_covered,
           total_distance_covered, milestone_index, milestone,
           daily_progress >>

\* calculated_route_json of a Trip: the empty dict of the model default,
\* or the summary written by the planner.
EmptyJson == << >>
RouteJson(stops, arrival, progress) ==
    << [stops |-> stops, arrival |-> arrival, daily_progress |-> progress] >>

TripRow(fields, json) ==
    [is_property_carrying |-> fields.is_property_carrying,
     adverse_conditions |-> fields.adverse_conditions,
     service_time_minutes |-> fields.service_time_minutes,
     calculated_route_json |-> json]

\* trip.log_entries.all() of the Trip of this request.
stored == IF trip_id \in DOMAIN log_entries THEN log_entries[trip_id] ELSE << >>

\* calculated_route_json["summary"]["stops"] of the Trip of this request.
summary ==
    IF trip_id \in DOMAIN trips /\ trips[trip_id].calculated_route_json # EmptyJson
    THEN trips[trip_id].calculated_route_json[1].stops
    ELSE 0 - 1

\* serializer.save() inserts a new Trip row.
ReuseTripId(table) == IF table = << >> THEN 1 ELSE Len(table)
NewTripId(table) == Len(table) + 1

\* Line 420: the day's budget is daily_work_time, whatever the Trip's
\* carrying type (lines 322-326 compute per-type limits that line 420
\* does not read).
DayBudgetByCarrier(fields) ==
    IF fields.is_property_carrying THEN daily_work_time ELSE 10 * TicksPerHour
DayBudget(fields) == daily_work_time

NotObserved == [seen |-> FALSE, entries |-> 0, json |-> FALSE]

\* Every distance input with the default Trip fields, well formed hints
\* and a working Maps service; and on the probe requests each of the
\* three varied in turn.
InitRequest ==
    \/ /\ req \in Requests
       /\ trip_fields = TripDefaults
       /\ hints = "ok"
       /\ maps = MapsUp
       /\ start_date_hint = NoHint
       /\ start_time_hint = ""
    \/ /\ req \in ProbeRequests
       /\ \/ /\ trip_fields \in TripFieldChoices /\ hints = "ok" /\ maps = MapsUp
             /\ start_date_hint = NoHint /\ start_time_hint = ""
          \/ /\ trip_fields = TripDefaults /\ hints \in HintChoices /\ maps = MapsUp
             /\ start_date_hint = NoHint /\ start_time_hint = ""
          \/ /\ trip_fields = TripDefaults /\ hints = "ok" /\ maps \in MapsChoices
             /\ start_date_hint = NoHint /\ start_time_hint = ""
          \/ /\ trip_fields = TripDefaults /\ hints = "ok" /\ maps = MapsUp
             /\ start_date_hint \in DateHintChoices
             /\ start_time_hint \in TimeHintChoices

Init ==
    /\ InitRequest
    /\ pc = "request"
    /\ request_no = 1
    /\ trip_id = 0
    /\ trips = << >>
    /\ log_entries = << >>
    /\ milestone_log = << >>
    /\ observed = NotObserved
    /\ current_location = GenericLabel(0)
    /\ deferred = {}
    /\ start_to_pickup_miles = 0
    /\ total_distance_miles = 0
    /\ estimated_fuel_stops = 0
    /\ milestones = << >>
    /\ segments = << >>
    /\ day_index = 0
    /\ t = 0
    /\ remaining_time_today = 0
    /\ daily_distance_covered = 0
    /\ total_distance_covered = 0
    /\ milestone_index = 1
    /\ milestone = NoMilestone
    /\ daily_progress = << >>

\* -------------------------------------------------------------- actions
\* Lines 273-275: serializer.is_valid(raise_exception=True) rejects a
\* request whose Trip fields are missing or malformed; nothing is saved.
RejectRequest ==
    /\ pc = "request"
    /\ ~ trip_fields.valid
    /\ pc' = "rejected"
    /\ UNCHANGED << inputVars, dbVars, auxVars, segments, day_index, t,
                    remaining_time_today, daily_distance_covered,
                    total_distance_covered, milestone_index, milestone,
                    daily_progress >>

\* Lines 273-276: serializer.save() inserts the Trip, with the empty
\* calculated_route_json and no LogEntry.
CreateTrip ==
    /\ pc = "request"
    /\ trip_fields.valid
    /\ LET id == NewTripId(trips)
       IN /\ trip_id' = id
          /\ trips' = [k \in (DOMAIN trips) \cup {id} |->
                         IF k = id THEN TripRow(trip_fields, EmptyJson)
                         ELSE trips[k]]
          /\ log_entries' = [k \in (DOMAIN log_entries) \cup {id} |->
                               IF k \in DOMAIN log_entries
                               THEN log_entries[k] ELSE << >>]
    /\ pc' = "hints"
    /\ UNCHANGED << requestVars, start_to_pickup_miles, total_distance_miles,
                    estimated_fuel_stops, milestones, milestone_log, observed,
                    auxVars, segments, day_index, t, remaining_time_today,
                    daily_distance_covered, total_distance_covered,
                    milestone_index, milestone, daily_progress >>

\* Lines 279-282: the hints parse.
ParseHints ==
    /\ pc = "hints"
    /\ hints # "bad_number"
    /\ pc' = "start"
    /\ UNCHANGED << inputVars, dbVars, auxVars, segments, day_index, t,
                    remaining_time_today, daily_distance_covered,
                    total_distance_covered, milestone_index, milestone,
                    daily_progress >>

\* Lines 279-280: int() of a non-numeric hint raises; the request fails.
HintError ==
    /\ pc = "hints"
    /\ hints = "bad_number"
    /\ pc' = "error"
    /\ UNCHANGED << inputVars, dbVars, auxVars, segments, day_index, t,
                    remaining_time_today, daily_distance_covered,
                    total_distance_covered, milestone_index, milestone,
                    daily_progress >>

\* The lookups of lines 304-305 and 387.
Leg1Lookup == get_pickup_distance_miles(maps.api_key, req.leg1)
Leg2Lookup == get_pickup_distance_miles(maps.api_key, req.leg2)
PlannedTotal ==
    IF req.has_pickup THEN Leg1Lookup.value + Leg2Lookup.value ELSE req.direct
StartName == get_location_name_from_route(maps, 0, PlannedTotal)

\* Lines 379-381 and 400: the date of the day being planned.
day_start == FirstDay(start_date_hint, start_time_hint) + day_index

\* Line 405: duty starts at 08:00 of the day, whatever the clock of
\* start_dt.
duty_window_start_at_hint(clock) ==
    (clock.hh * 60 + clock.mm) * TicksPerMinute
duty_window_start(clock) == DutyWindowStart

\* What makes lines 299-392 raise: a lookup that raises,
\* datetime.fromisoformat on a malformed start date (line 379), or
\* datetime() on an hour or minute out of range (line 380).
PlanRaises ==
    \/ req.has_pickup /\ (Leg1Lookup.raised \/ Leg2Lookup.raised)
    \/ hints = "bad_date"
    \/ StartDtRaises(ParseClock(start_time_hint))
    \/ StartName.raised

\* Lines 299-379, raising: the request fails.
PlanError ==
    /\ pc = "start"
    /\ PlanRaises
    /\ pc' = "error"
    /\ UNCHANGED << inputVars, dbVars, auxVars, segments, day_index, t,
                    remaining_time_today, daily_distance_covered,
                    total_distance_covered, milestone_index, milestone,
                    daily_progress >>

\* Lines 299-392: distances, fuel stop estimate, milestone list, counters.
Plan ==
    /\ pc = "start"
    /\ ~ PlanRaises
    /\ LET s2p == IF req.has_pickup THEN Leg1Lookup.value ELSE 0
           total == PlannedTotal
       IN /\ start_to_pickup_miles' = s2p
          /\ total_distance_miles' = total
          /\ estimated_fuel_stops' = EstimatedFuelStops(total)
          /\ milestones' = BuildMilestones(s2p, total)
          /\ milestone_log' = Append(milestone_log, BuildMilestones(s2p, total))
    /\ current_location' = StartName.value
    /\ pc' = "dayloop"
    /\ UNCHANGED << requestVars, trip_id, trips, log_entries, observed,
                    deferred, segments, day_index, t, remaining_time_today,
                    daily_distance_covered, total_distance_covered,
                    milestone_index, milestone, daily_progress >>

\* Lines 395-423: a new day; OFF 00:00-08:00, cursor at 08:00, fresh budget.
StartDay ==
    /\ pc = "dayloop"
    /\ total_distance_covered < total_distance_miles
    /\ segments' = Append(segments,
                     LogEntry(day_start, "OFF", 0, OffDutyEnd, "", 0))
    /\ t' = duty_window_start(ParseClock(start_time_hint))
    /\ remaining_time_today' = DayBudget(trip_fields)
    /\ daily_distance_covered' = 0
    /\ pc' = "milestones"
    /\ UNCHANGED << inputVars, day_index, total_distance_covered,
                    milestone_index, milestone, daily_progress, dbVars,
                    auxVars >>

\* Line 395: the day loop ends when the distance is covered.
DayLoopExit ==
    /\ pc = "dayloop"
    /\ ~ (total_distance_covered < total_distance_miles)
    /\ pc' = "persist"
    /\ UNCHANGED << inputVars, segments, day_index, t, remaining_time_today,
                    daily_distance_covered, total_distance_covered,
                    milestone_index, milestone, daily_progress, dbVars,
                    auxVars >>

\* Line 427: the condition of the milestone loop.
MilestoneLoopCond ==
    remaining_time_today > 0 /\ milestone_index <= Len(milestones)

NextMilestone == milestones[milestone_index]
distance_to_milestone == NextMilestone.distance - total_distance_covered
drive_time_to_milestone == DriveTime(distance_to_milestone)
total_time_for_milestone == drive_time_to_milestone + NextMilestone.time

\* Line 431: the milestone was already passed.
AlreadyPassed(d) == d <= 0

\* Line 427 false: leave the milestone loop.
MilestoneLoopExit ==
    /\ pc = "milestones"
    /\ ~ MilestoneLoopCond
    /\ pc' = "endday"
    /\ UNCHANGED << inputVars, segments, day_index, t, remaining_time_today,
                    daily_distance_covered, total_distance_covered,
                    milestone_index, milestone, daily_progress, dbVars,
                    auxVars >>

\* Lines 428-434: skip a milestone that lies at or behind the position.
SkipMilestone ==
    /\ pc = "milestones"
    /\ MilestoneLoopCond
    /\ AlreadyPassed(distance_to_milestone)
    /\ milestone' = NextMilestone
    /\ milestone_index' = milestone_index + 1
    /\ UNCHANGED << inputVars, pc, segments, day_index, t,
                    remaining_time_today, daily_distance_covered,
                    total_distance_covered, daily_progress, dbVars, auxVars >>

\* Lines 447-485: drive to the milestone and serve it.
CompleteMilestone ==
    /\ pc = "milestones"
    /\ MilestoneLoopCond
    /\ ~ AlreadyPassed(distance_to_milestone)
    /\ total_time_for_milestone <= remaining_time_today
    /\ LET m == NextMilestone
           drive_end == t + drive_time_to_milestone
           stop_end == drive_end + m.time
       IN /\ milestone' = m
          /\ segments' = segments \o
               << LogEntry(day_start, "DR", t, drive_end, "", 0),
                  LogEntry(day_start, "ON", drive_end, stop_end,
                           m.type, m.distance) >>
          /\ t' = stop_end
          /\ daily_distance_covered' =
               daily_distance_covered + distance_to_milestone
          /\ total_distance_covered' =
               total_distance_covered + distance_to_milestone
          /\ remaining_time_today' =
               remaining_time_today - drive_time_to_milestone - m.time
    /\ milestone_index' = milestone_index + 1
    /\ pc' = "same"
    /\ UNCHANGED << inputVars, day_index, daily_progress, dbVars, auxVars >>

\* Lines 489-493: the condition of the same-distance loop.  Distances
\* are exact here, so "closer than 1e-6" is equality.
SameDistanceCond ==
    /\ milestone_index <= Len(milestones)
    /\ milestones[milestone_index].distance = total_distance_covered
    /\ remaining_time_today > 0

\* Lines 494-517: serve a milestone stacked at the same distance.
SameDistanceStop ==
    /\ pc = "same"
    /\ SameDistanceCond
    /\ NextMilestone.time <= remaining_time_today
    /\ LET same_milestone == NextMilestone
           same_stop_end == t + same_milestone.time
       IN /\ segments' = Append(segments,
               LogEntry(day_start, "ON", t, same_stop_end,
                        same_milestone.type, same_milestone.distance))
          /\ t' = same_stop_end
          /\ remaining_time_today' =
               remaining_time_today - same_milestone.time
    /\ milestone_index' = milestone_index + 1
    /\ UNCHANGED << inputVars, pc, day_index, daily_distance_covered,
                    total_distance_covered, milestone, daily_progress,
                    dbVars, auxVars >>

\* Lines 518-521: the stacked stop does not fit today; break.
SameDistanceDefer ==
    /\ pc = "same"
    /\ SameDistanceCond
    /\ ~ (NextMilestone.time <= remaining_time_today)
    /\ pc' = "aftersame"
    /\ UNCHANGED << inputVars, segments, day_index, t, remaining_time_today,
                    daily_distance_covered, total_distance_covered,
                    milestone_index, milestone, daily_progress, dbVars,
                    auxVars >>

\* Lines 489-493 false: leave the same-distance loop.
SameDistanceExit ==
    /\ pc = "same"
    /\ ~ SameDistanceCond
    /\ pc' = "aftersame"
    /\ UNCHANGED << inputVars, segments, day_index, t, remaining_time_today,
                    daily_distance_covered, total_distance_covered,
                    milestone_index, milestone, daily_progress, dbVars,
                    auxVars >>

\* Lines 523-542: the milestone just served was the dropoff.
DropoffDone ==
    /\ pc = "aftersame"
    /\ milestone.type = "dropoff"
    /\ daily_progress' = Append(daily_progress,
         Progress(day_start, current_location,
                  get_location_name_from_route(maps, total_distance_miles,
                                               total_distance_miles).value,
                  daily_distance_covered, total_distance_covered))
    /\ remaining_time_today' = 0
    /\ total_distance_covered' = total_distance_miles
    /\ pc' = "endday"
    /\ UNCHANGED << inputVars, segments, day_index, t,
                    daily_distance_covered, milestone_index, milestone,
                    dbVars, auxVars >>

\* Line 524 false: back to the head of the milestone loop.
MilestoneLoopAgain ==
    /\ pc = "aftersame"
    /\ milestone.type # "dropoff"
    /\ pc' = "milestones"
    /\ UNCHANGED << inputVars, segments, day_index, t, remaining_time_today,
                    daily_distance_covered, total_distance_covered,
                    milestone_index, milestone, daily_progress, dbVars,
                    auxVars >>

\* Lines 544-602: the dropoff does not fit with its service time, but the
\* drive to it does: drive there, serve it, record the day, finish.  The
\* inner test of line 552 repeats the one of line 431 and is always true.
ReachDropoff ==
    /\ pc = "milestones"
    /\ MilestoneLoopCond
    /\ ~ AlreadyPassed(distance_to_milestone)
    /\ ~ (total_time_for_milestone <= remaining_time_today)
    /\ NextMilestone.type = "dropoff"
    /\ drive_time_to_milestone <= remaining_time_today
    /\ LET m == NextMilestone
           drive_end == t + drive_time_to_milestone
           stop_end == drive_end + m.time
       IN /\ milestone' = m
          /\ segments' = segments \o
               << LogEntry(day_start, "DR", t, drive_end, "", 0),
                  LogEntry(day_start, "ON", drive_end, stop_end,
                           "dropoff", m.distance) >>
          /\ t' = stop_end
          /\ daily_distance_covered' =
               daily_distance_covered + distance_to_milestone
          /\ remaining_time_today' =
               remaining_time_today - drive_time_to_milestone - m.time
          /\ daily_progress' = Append(daily_progress,
               Progress(day_start, current_location,
                        get_location_name_from_route(maps,
                            total_distance_miles, total_distance_miles).value,
                        daily_distance_covered + distance_to_milestone,
                        total_distance_covered + distance_to_milestone))
    /\ total_distance_covered' = total_distance_miles
    /\ pc' = "endday"
    /\ UNCHANGED << inputVars, day_index, milestone_index, dbVars, auxVars >>

\* Lines 603-619: the dropoff is out of reach today; drive the rest of
\* the budget toward it and end the day.
DropoffPartial ==
    /\ pc = "milestones"
    /\ MilestoneLoopCond
    /\ ~ AlreadyPassed(distance_to_milestone)
    /\ ~ (total_time_for_milestone <= remaining_time_today)
    /\ NextMilestone.type = "dropoff"
    /\ ~ (drive_time_to_milestone <= remaining_time_today)
    /\ LET distance_this_time == DistanceFor(remaining_time_today)
           drive_end == t + remaining_time_today
       IN /\ segments' = Append(segments,
               LogEntry(day_start, "DR", t, drive_end, "", 0))
          /\ t' = drive_end
          /\ daily_distance_covered' =
               daily_distance_covered + distance_this_time
          /\ total_distance_covered' =
               total_distance_covered + distance_this_time
    /\ milestone' = NextMilestone
    /\ remaining_time_today' = 0
    /\ pc' = "endday"
    /\ UNCHANGED << inputVars, day_index, milestone_index, daily_progress,
                    dbVars, auxVars >>

\* Lines 624-640: a pickup or fuel milestone does not fit today; drive the
\* whole remaining budget and end the day.
DeferMilestone ==
    /\ pc = "milestones"
    /\ MilestoneLoopCond
    /\ ~ AlreadyPassed(distance_to_milestone)
    /\ ~ (total_time_for_milestone <= remaining_time_today)
    /\ NextMilestone.type # "dropoff"
    /\ LET distance_this_time == DistanceFor(remaining_time_today)
           drive_end == t + remaining_time_today
       IN /\ segments' = Append(segments,
               LogEntry(day_start, "DR", t, drive_end, "", 0))
          /\ t' = drive_end
          /\ daily_distance_covered' =
               daily_distance_covered + distance_this_time
          /\ total_distance_covered' =
               total_distance_covered + distance_this_time
    /\ milestone' = NextMilestone
    /\ remaining_time_today' = 0
    /\ deferred' = deferred \cup {milestone_index}
    /\ pc' = "endday"
    /\ UNCHANGED << inputVars, day_index, milestone_index, daily_progress,
                    dbVars, current_location >>

\* Line 648: budget left and no milestone left.
NoMilestonesLeft ==
    remaining_time_today > 0 /\ milestone_index > Len(milestones)

\* Lines 647-663: drive the remaining budget.
DriveRemaining ==
    /\ pc = "endday"
    /\ NoMilestonesLeft
    /\ LET distance_this_time == DistanceFor(remaining_time_today)
           drive_end == t + remaining_time_today
       IN /\ segments' = Append(segments,
               LogEntry(day_start, "DR", t, drive_end, "", 0))
          /\ t' = drive_end
          /\ daily_distance_covered' =
               daily_distance_covered + distance_this_time
          /\ total_distance_covered' =
               total_distance_covered + distance_this_time
    /\ remaining_time_today' = 0
    /\ pc' = "off"
    /\ UNCHANGED << inputVars, day_index, milestone_index, milestone,
                    daily_progress, dbVars, auxVars >>

\* Line 648 false.
NoDriveRemaining ==
    /\ pc = "endday"
    /\ ~ NoMilestonesLeft
    /\ pc' = "off"
    /\ UNCHANGED << inputVars, segments, day_index, t, remaining_time_today,
                    daily_distance_covered, total_distance_covered,
                    milestone_index, milestone, daily_progress, dbVars,
                    auxVars >>

\* Lines 665-678: trailing OFF to 23:59; the trip is complete, leave the
\* day loop.
LastDayOff ==
    /\ pc = "off"
    /\ total_distance_covered >= total_distance_miles
    /\ segments' = Append(segments,
         [LogEntry(day_start, "OFF", t, t, "", 0)
            EXCEPT !.end_time = OffEndMinute])
    /\ pc' = "persist"
    /\ UNCHANGED << inputVars, day_index, t, remaining_time_today,
                    daily_distance_covered, total_distance_covered,
                    milestone_index, milestone, daily_progress, dbVars,
                    auxVars >>

\* Lines 665-709: trailing OFF to 23:59, the day's progress snapshot, and
\* the day cursor advances.  The test of line 703 repeats the one of line
\* 676 and is always false.
NextDayOff ==
    /\ pc = "off"
    /\ ~ (total_distance_covered >= total_distance_miles)
    /\ segments' = Append(segments,
         [LogEntry(day_start, "OFF", t, t, "", 0)
            EXCEPT !.end_time = OffEndMinute])
    /\ LET end_location_name ==
             get_location_name_from_route(maps, total_distance_covered,
                                          total_distance_miles).value
       IN /\ daily_progress' = Append(daily_progress,
               Progress(day_start, current_location, end_location_name,
                        daily_distance_covered, total_distance_covered))
          /\ current_location' = end_location_name
    /\ day_index' = AdvanceDay(day_index)
    /\ pc' = "dayloop"
    /\ UNCHANGED << inputVars, t, remaining_time_today,
                    daily_distance_covered, total_distance_covered,
                    milestone_index, milestone, dbVars, deferred >>

\* Lines 711-715: bulk_create inserts the segments as LogEntry rows of
\* the Trip.  No transaction spans the request (ATOMIC_REQUESTS is not
\* set), so the rows are visible from here on.
Persist ==
    /\ pc = "persist"
    /\ log_entries' = [log_entries EXCEPT ![trip_id] = @ \o segments]
    /\ pc' = "summarize"
    /\ UNCHANGED << inputVars, trips, milestone_log, observed, auxVars,
                    segments, day_index, t, remaining_time_today,
                    daily_distance_covered, total_distance_covered,
                    milestone_index, milestone, daily_progress >>

\* Lines 717-730: the summary and the daily progress are written to
\* calculated_route_json of the Trip row.
Summarize ==
    /\ pc = "summarize"
    /\ trips' = [trips EXCEPT ![trip_id].calculated_route_json =
                    RouteJson(estimated_fuel_stops,
                              StartDt(start_date_hint, start_time_hint),
                              daily_progress)]
    /\ pc' = "done"
    /\ UNCHANGED << inputVars, log_entries, milestone_log, observed, auxVars,
                    segments, day_index, t, remaining_time_today,
                    daily_distance_covered, total_distance_covered,
                    milestone_index, milestone, daily_progress >>

\* GET of the trip (retrieve, lines 269-271) or of its log sheets (lines
\* 735-739) by another client: it sees the rows as they are now.
Read ==
    /\ trip_id \in DOMAIN trips
    /\ observed' = [seen |-> TRUE,
                    entries |-> Len(log_entries[trip_id]),
                    json |-> trips[trip_id].calculated_route_json # EmptyJson]
    /\ observed' # observed
    /\ UNCHANGED << inputVars, trips, log_entries, milestone_log, auxVars, pc,
                    segments, day_index, t, remaining_time_today,
                    daily_distance_covered, total_distance_covered,
                    milestone_index, milestone, daily_progress >>

\* The client posts the same trip again, possibly with other values
\* of the carrying type and adverse conditions flags: a new request
\* with fresh locals; the tables stay.
MaxRequests == 2

Replan ==
    /\ pc \in {"done", "error", "rejected"}
    /\ request_no < MaxRequests
    /\ request_no' = request_no + 1
    /\ \E p, a \in BOOLEAN :
          trip_fields' = [trip_fields EXCEPT !.is_property_carrying = p,
                                             !.adverse_conditions = a]
    /\ pc' = "request"
    /\ trip_id' = 0
    /\ observed' = NotObserved
    /\ current_location' = GenericLabel(0)
    /\ deferred' = {}
    /\ start_to_pickup_miles' = 0
    /\ total_distance_miles' = 0
    /\ estimated_fuel_stops' = 0
    /\ milestones' = << >>
    /\ segments' = << >>
    /\ day_index' = 0
    /\ t' = 0
    /\ remaining_time_today' = 0
    /\ daily_distance_covered' = 0
    /\ total_distance_covered' = 0
    /\ milestone_index' = 1
    /\ milestone' = NoMilestone
    /\ daily_progress' = << >>
    /\ UNCHANGED << req, hints, start_date_hint, start_time_hint, maps, trips,
                    log_entries, milestone_log >>

\* The same request posted again with another start_time_local and
\* nothing else changed.
ReplanStartTime ==
    /\ pc \in {"done", "error", "rejected"}
    /\ request_no < MaxRequests
    /\ request_no' = request_no + 1
    /\ start_time_hint' \in TimeHintChoices \ {start_time_hint}
    /\ pc' = "request"
    /\ trip_id' = 0
    /\ observed' = NotObserved
    /\ current_location' = GenericLabel(0)
    /\ deferred' = {}
    /\ start_to_pickup_miles' = 0
    /\ total_distance_miles' = 0
    /\ estimated_fuel_stops' = 0
    /\ milestones' = << >>
    /\ segments' = << >>
    /\ day_index' = 0
    /\ t' = 0
    /\ remaining_time_today' = 0
    /\ daily_distance_covered' = 0
    /\ total_distance_covered' = 0
    /\ milestone_index' = 1
    /\ milestone' = NoMilestone
    /\ daily_progress' = << >>
    /\ UNCHANGED << req, trip_fields, hints, start_date_hint, maps, trips,
                    log_entries, milestone_log >>

Next ==
    \/ RejectRequest
    \/ CreateTrip
    \/ ParseHints
    \/ HintError
    \/ PlanError
    \/ Plan
    \/ StartDay
    \/ DayLoopExit
    \/ MilestoneLoopExit
    \/ SkipMilestone
    \/ CompleteMilestone
    \/ SameDistanceStop
    \/ SameDistanceDefer
    \/ SameDistanceExit
    \/ DropoffDone
    \/ MilestoneLoopAgain
    \/ ReachDropoff
    \/ DropoffPartial
    \/ DeferMilestone
    \/ DriveRemaining
    \/ NoDriveRemaining
    \/ LastDayOff
    \/ NextDayOff
    \/ Persist
    \/ Summarize

Spec == Init /\ [][Next]_vars

\* The requests of the specification with repeated requests and a
\* concurrent reader.
ApiRequests ==
    ProbeRequests \cup
    { [has_pickup |-> FALSE, leg1 |-> FAIL, leg2 |-> FAIL, direct |-> 0],
      [has_pickup |-> FALSE, leg1 |-> FAIL, leg2 |-> FAIL, direct |-> Miles(440)],
      [has_pickup |-> TRUE, leg1 |-> Miles(400), leg2 |-> 0, direct |-> 0],
      [has_pickup |-> TRUE, leg1 |-> Miles(1000), leg2 |-> Miles(50),
       direct |-> 0],
      [has_pickup |-> TRUE, leg1 |-> Miles(470), leg2 |-> Miles(50),
       direct |-> 0] }

InitApi == Init /\ req \in ApiRequests

NextApi == Next \/ Read \/ Replan

SpecApi == InitApi /\ [][NextApi]_vars

\* The planner with the same request repeated under other start times.
NextHint == Next \/ ReplanStartTime

SpecHint == InitApi /\ [][NextHint]_vars

\* The planner as the sequential program it is: a step that can be
\* taken is taken.
SpecFair == Init /\ [][Next]_vars /\ WF_vars(Next)

\* ------------------------------------------------------------ properties
Done == pc = "done"
Planned == pc \notin {"request", "rejected", "hints", "start", "error"}

Dates(segs) == {segs[i].log_sheet_date : i \in DOMAIN segs}
OfDate(segs, d) == SelectSeq(segs, LAMBDA e : e.log_sheet_date = d)
Duration(e) == e.end_time - e.start_time

RECURSIVE SumSeq(_, _)
SumSeq(f(_), segs) ==
    IF segs = << >> THEN 0 ELSE f(Head(segs)) + SumSeq(f, Tail(segs))

IsDuty(e) == e.duty_status \in {"DR", "ON"}
DutyMinutes(segs, d) ==
    SumSeq(Duration, SelectSeq(OfDate(segs, d), IsDuty))
DrivenSum(segs) ==
    SumSeq(LAMBDA e : e.distance_driven,
           SelectSeq(segs, LAMBDA e : e.duty_status = "DR"))
DailyBudgetMinutes == daily_work_time \div TicksPerMinute
Abs(x) == IF x < 0 THEN 0 - x ELSE x
\* distance_driven has two decimal places; a tolerance of a tenth of a
\* mile is far above any rounding of it.
Tolerance == UnitsPerMile \div 10 + 1

ServiceIndexes(segs) == {i \in DOMAIN segs : segs[i].duty_status = "ON"}
DropoffServed == \E i \in DOMAIN segments : segments[i].remarks = "dropoff"
FuelServed(segs) ==
    Cardinality({i \in DOMAIN segs : segs[i].remarks = "fuel"})

\* The segments of one date, in the order they were emitted, tile the day.
Tiles(ss) ==
    /\ ss # << >>
    /\ ss[1].start_time = 0
    /\ ss[Len(ss)].end_time = OffEndMinute
    /\ \A i \in 2..Len(ss) : ss[i].start_time = ss[i - 1].end_time
    /\ \A i \in DOMAIN ss : ss[i].end_time >= ss[i].start_time

AllDaysTile(segs) == \A d \in Dates(segs) : Tiles(OfDate(segs, d))
AllDaysInBudget(segs) ==
    \A d \in Dates(segs) : DutyMinutes(segs, d) <= DailyBudgetMinutes
DrivenSumIsTotal(segs) ==
    Abs(DrivenSum(segs) - total_distance_miles) <= Tolerance

\* C1: in a completed plan the segments of every date, in start time
\* order (the order of emission, which keeps equal start times in place),
\* tile the day: the first starts at 00:00, the last ends at 23:59, each
\* starts where the previous one ended, and none ends before it starts.
C1_DayTiling == Done => AllDaysTile(stored)

C1_Witness ==
    /\ Done
    /\ req.has_pickup
    /\ start_to_pickup_miles > 0
    /\ Cardinality(Dates(stored)) >= 3
    /\ \E i \in DOMAIN stored : Duration(stored[i]) = 0

\* C2: on every date the DR and ON segments together last at most the
\* daily budget of 8.75 hours, the day of the dropoff included.
C2_DailyBudget == AllDaysInBudget(segments)

\* C3: when planning has finished, the distance_driven values of the DR
\* segments add up to the total route distance, within the tolerance.
C3_DrivenSum == Done => DrivenSumIsTotal(stored)

\* C4: once the dropoff service segment has been emitted, the cumulative
\* distance covered equals the total route distance.
C4_NoOvershoot == DropoffServed => total_distance_covered = total_distance_miles

\* C5: service segments appear in non-decreasing milestone distance
\* order, and when a service segment has been emitted no milestone of
\* strictly smaller distance is still waiting to be served.
C5_MilestoneOrder ==
    /\ \A i, j \in ServiceIndexes(segments) :
          i < j => segments[i].milestone_distance
                     <= segments[j].milestone_distance
    /\ \A i \in ServiceIndexes(segments) :
          \A k \in milestone_index..Len(milestones) :
             segments[i].milestone_distance <= milestones[k].distance

C5_Witness ==
    /\ Done
    /\ Cardinality(ServiceIndexes(stored)) >= 4
    /\ \E i, j \in ServiceIndexes(stored) :
          i < j /\ stored[i].milestone_distance = stored[j].milestone_distance

FuelIndexes == {i \in DOMAIN milestones : milestones[i].type = "fuel"}
FuelMarks ==
    {k * Miles(fuel_interval_miles) :
        k \in 1..(total_distance_miles \div Miles(fuel_interval_miles) + 1)}

\* C6: the milestone list holds one fuel milestone at every positive
\* multiple of 1000 miles strictly below the total distance, no other
\* fuel milestone, and each lasts 15 minutes.
C6_FuelMilestones ==
    Planned =>
      /\ \A i \in FuelIndexes :
            /\ milestones[i].distance \in FuelMarks
            /\ milestones[i].distance < total_distance_miles
            /\ milestones[i].time = 15 * TicksPerMinute
      /\ \A x \in FuelMarks :
            x < total_distance_miles =>
              Cardinality({i \in FuelIndexes : milestones[i].distance = x}) = 1

C6_Witness ==
    /\ Planned
    /\ total_distance_miles = Miles(2 * fuel_interval_miles)
    /\ Cardinality(FuelIndexes) = 1

\* C7: the fuel stop count of the summary is the number of fuel stop
\* segments of the plan.
C7_StopsCount == Done => summary = FuelServed(stored)

ScenarioB ==
    [has_pickup |-> TRUE, leg1 |-> Miles(50), leg2 |-> Miles(2450), direct |-> 0]

\* C8: with a pickup at 50 miles and a total of 2500 miles the milestone
\* list is pickup@50, fuel@1000, fuel@2000, dropoff@2500 and the finished
\* plan has segments on at least 6 dates.
C8_ScenarioB ==
    req = ScenarioB =>
      /\ Planned =>
           milestones = << Milestone("pickup", Miles(50), TicksPerHour),
                           Milestone("fuel", Miles(1000), 15 * TicksPerMinute),
                           Milestone("fuel", Miles(2000), 15 * TicksPerMinute),
                           Milestone("dropoff", Miles(2500), TicksPerHour) >>
      /\ Done => Cardinality(Dates(stored)) >= 6

C8_Witness ==
    /\ req = ScenarioB
    /\ Done
    /\ total_distance_miles = Miles(2500)
    /\ Cardinality(Dates(stored)) = 6

ScenarioA ==
    [has_pickup |-> FALSE, leg1 |-> FAIL, leg2 |-> FAIL, direct |-> Miles(100)]

Entry(date, status, from, to, remarks, mdist) ==
    [log_sheet_date |-> date, duty_status |-> status, start_time |-> from,
     end_time |-> to, distance_driven |-> 0, remarks |-> remarks,
     milestone_distance |-> mdist]

\* C9: a 100 mile trip without pickup is planned on one date as OFF
\* 00:00-08:00, DR 08:00-09:49 (100/55 hours), the dropoff ON segment
\* 09:49-10:49 and OFF 10:49-23:59.
C9_ScenarioA ==
    (req = ScenarioA /\ Done) =>
      LET d == StartDate(start_date_hint)
      IN stored = << Entry(d, "OFF", 0, 8 * 60, "", 0),
                     Entry(d, "DR", 8 * 60, 9 * 60 + 49, "", 0),
                     Entry(d, "ON", 9 * 60 + 49, 10 * 60 + 49, "dropoff",
                           Miles(100)),
                     Entry(d, "OFF", 10 * 60 + 49, 23 * 60 + 59, "", 0) >>

C9_Witness ==
    /\ req = ScenarioA
    /\ Done
    /\ Len(stored) = 4
    /\ milestones = << Milestone("dropoff", Miles(100), TicksPerHour) >>

LookupFails(api_key, outcome) ==
    ~ api_key \/ outcome \in {FAIL, BadStatus, BadText}

ProviderDown ==
    /\ req.has_pickup
    /\ LookupFails(maps.api_key, req.leg1)
    /\ LookupFails(maps.api_key, req.leg2)

\* C10: when both distance lookups fail, planning finishes with 50 miles
\* for each leg and the plan tiles every day, has DR distances that add
\* up to the total, and keeps every day within the daily budget.
C10_ScenarioC ==
    (ProviderDown /\ Done) =>
      /\ start_to_pickup_miles = Miles(FallbackMiles)
      /\ total_distance_miles = 2 * Miles(FallbackMiles)
      /\ AllDaysTile(stored)
      /\ DrivenSumIsTotal(stored)
      /\ AllDaysInBudget(stored)

\* The part of C10 that does not depend on distance_driven.
C10_Rest ==
    (ProviderDown /\ Done) =>
      /\ start_to_pickup_miles = Miles(FallbackMiles)
      /\ total_distance_miles = 2 * Miles(FallbackMiles)
      /\ AllDaysTile(stored)
      /\ AllDaysInBudget(stored)

\* C11: the distance lookup never raises and gives exactly 50.0 miles in
\* every failure mode (no API key, an exception, a non-OK status, a
\* distance text that is not a number); the planner gets the fallback
\* and a request with well formed hints never fails.
C11_LookupNeverRaises ==
    /\ \A o \in {req.leg1, req.leg2} :
          LET r == get_pickup_distance_miles(maps.api_key, o)
          IN /\ ~ r.raised
             /\ LookupFails(maps.api_key, o) => r.value = 50 * UnitsPerMile
    /\ (Planned /\ req.has_pickup /\ LookupFails(maps.api_key, req.leg1)) =>
          start_to_pickup_miles = 50 * UnitsPerMile
    /\ (Planned /\ ProviderDown) => total_distance_miles = 100 * UnitsPerMile
    /\ pc = "error" =>
          hints # "ok" \/ StartDtRaises(ParseClock(start_time_hint))

C11_Witness ==
    /\ Planned
    /\ maps.api_key
    /\ req.has_pickup
    /\ req.leg1 = FAIL
    /\ req.leg2 = BadText
    /\ total_distance_miles = 100 * UnitsPerMile

\* The mileages the namer is asked about, and two beyond the ends.
NameProbes ==
    {0 - UnitsPerMile, 0, total_distance_covered, total_distance_miles,
     total_distance_miles + UnitsPerMile}

\* The lookups the namer makes for mileage d fail.
NameLookupFails(env, d, total) ==
    \/ ~ env.api_key
    \/ (d <= 0 \/ d >= total) /\ env.geocode # "ok"
    \/ (0 < d /\ d < total) /\ (env.directions # "ok" \/ env.geocode # "ok")

NameOfProgress(i) ==
    get_location_name_from_route(maps, daily_progress[i].cumulative_distance,
                                 total_distance_miles)

\* C12 as claimed: the namer never raises and on any failure of its
\* lookups returns "Location at X miles" for the requested mileage X,
\* also for X <= 0 and X >= total.
C12_GenericOnFailure ==
    /\ \A d \in NameProbes :
          LET r == get_location_name_from_route(maps, d, total_distance_miles)
          IN /\ ~ r.raised
             /\ NameLookupFails(maps, d, total_distance_miles) =>
                   r.value = GenericLabel(d)
    /\ (Planned /\ NameLookupFails(maps, 0, total_distance_miles)) =>
          current_location.kind = "generic"

\* What the namer gives when its lookups fail.
NameFallback(env, d, total) ==
    IF ~ env.api_key THEN [kind |-> "generic", tenths |-> Tenths(d)]
    ELSE IF d <= 0 THEN [kind |-> "start_address", tenths |-> 0]
    ELSE IF d >= total THEN [kind |-> "dropoff_address", tenths |-> 0]
    ELSE [kind |-> "generic", tenths |-> Tenths(d)]

\* C12 amended: the namer never raises; when its lookups fail it
\* returns "Location at X miles" if no API key is set or 0 < X < total,
\* and the start address (X <= 0) or the dropoff address (X >= total)
\* unchanged if a key is set.  The names recorded in the daily progress
\* follow the same rule.
C12_NamerFallback ==
    /\ \A d \in NameProbes :
          LET r == get_location_name_from_route(maps, d, total_distance_miles)
          IN /\ ~ r.raised
             /\ NameLookupFails(maps, d, total_distance_miles) =>
                   r.value = NameFallback(maps, d, total_distance_miles)
    /\ \A i \in DOMAIN daily_progress :
          LET d == daily_progress[i].cumulative_distance
          IN NameLookupFails(maps, d, total_distance_miles) =>
               daily_progress[i].end_location =
                 NameFallback(maps, d, total_distance_miles)
    /\ (daily_progress # << >>
          /\ NameLookupFails(maps, 0, total_distance_miles)) =>
          daily_progress[1].start_location =
            NameFallback(maps, 0, total_distance_miles)

C12_Witness ==
    /\ Done
    /\ maps.api_key
    /\ maps.geocode = "raise"
    /\ Len(daily_progress) >= 2
    /\ daily_progress[1].start_location.kind = "start_address"
    /\ daily_progress[1].end_location.kind = "generic"
    /\ daily_progress[Len(daily_progress)].end_location.kind = "dropoff_address"

\* C13: a request either completes, with the Trip, its segments and its
\* summary persisted, or fails and leaves no Trip and no LogEntry.
C13_AllOrNothing ==
    /\ pc \in {"error", "rejected"} =>
          /\ trip_id \notin DOMAIN trips
          /\ \A id \in DOMAIN log_entries : log_entries[id] = << >>
    /\ Done =>
          /\ trip_id \in DOMAIN trips
          /\ stored = segments
          /\ trips[trip_id].calculated_route_json # EmptyJson

\* C14: a concurrent reader never sees the Trip with segments and an
\* empty result blob, and a Trip it has seen does not gain segments
\* afterwards.
C14_SingleUnit ==
    observed.seen =>
      /\ ~ (observed.entries > 0 /\ ~ observed.json)
      /\ trip_id \in DOMAIN log_entries =>
            Len(log_entries[trip_id]) = observed.entries

Complete(id) == trips[id].calculated_route_json # EmptyJson

\* C15: however often the same trip is posted, every Trip row holds the
\* segments of exactly one run: they tile each of its dates (no segment
\* twice, none overlapping), and when a run has finished every planned
\* Trip holds that run's segments.
C15_OneRunPerTrip ==
    /\ \A id \in DOMAIN log_entries : AllDaysTile(log_entries[id])
    /\ Done => \A id \in DOMAIN trips :
                  Complete(id) => log_entries[id] = segments

C15_Witness ==
    /\ Done
    /\ request_no = 2
    /\ Len(trips) = 2
    /\ Complete(1)
    /\ Len(log_entries[1]) > 4
    /\ trips[1] = trips[2]

\* C16: runs that differ only in the carrying type and adverse
\* conditions flags have the same milestone list, the same segments and
\* the same summary.
C16_FlagsIgnored ==
    /\ \A i, j \in DOMAIN milestone_log : milestone_log[i] = milestone_log[j]
    /\ \A i, j \in DOMAIN trips :
          (Complete(i) /\ Complete(j)) =>
             /\ log_entries[i] = log_entries[j]
             /\ trips[i].calculated_route_json = trips[j].calculated_route_json

C16_Witness ==
    /\ Done
    /\ Len(trips) = 2
    /\ Complete(1)
    /\ trips[1].is_property_carrying # trips[2].is_property_carrying
    /\ trips[1].adverse_conditions # trips[2].adverse_conditions
    /\ Len(log_entries[2]) > 4
    /\ Len(milestone_log) = 2

\* C17: the pickup and dropoff milestones last the Trip's
\* service_time_minutes.
C17_ServiceTime ==
    Planned =>
      \A i \in DOMAIN milestones :
         milestones[i].type \in {"pickup", "dropoff"} =>
            milestones[i].time =
              trip_fields.service_time_minutes * TicksPerMinute

Rank(type) == CASE type = "pickup" -> 1 [] type = "fuel" -> 2 [] OTHER -> 3

\* C18: the milestone list ascends by distance, and at equal distance
\* pickup comes before fuel and both come before dropoff.
C18_StableOrder ==
    Planned =>
      \A i, j \in DOMAIN milestones :
         i < j =>
           /\ milestones[i].distance <= milestones[j].distance
           /\ milestones[i].distance = milestones[j].distance =>
                 Rank(milestones[i].type) < Rank(milestones[j].type)

C18_Witness ==
    /\ Planned
    /\ Len(milestones) >= 3
    /\ milestones[1].type = "pickup"
    /\ milestones[2].type = "fuel"
    /\ milestones[1].distance = milestones[2].distance

\* C19: cumulative distance covered never exceeds the total route
\* distance.
C19_NeverPastDropoff == total_distance_covered <= total_distance_miles

Served(k) ==
    \E i \in DOMAIN segments :
       /\ segments[i].duty_status = "ON"
       /\ segments[i].remarks = milestones[k].type
       /\ segments[i].milestone_distance = milestones[k].distance

\* C20: a pickup or fuel milestone postponed to a later day is not lost:
\* the drive toward it stops short of it or at it, and the milestone
\* index moves past it only with its service segment emitted.
C20_DeferredNotLost ==
    \A k \in deferred :
       /\ k = milestone_index =>
             total_distance_covered <= milestones[k].distance
       /\ k < milestone_index => Served(k)

\* C21: the already-passed branch is never taken: the milestone the
\* milestone loop examines lies strictly ahead of the distance covered,
\* and every milestone the index has moved past has its service segment.
C21_NeverPassed ==
    /\ (pc = "milestones" /\ MilestoneLoopCond) =>
          NextMilestone.distance > total_distance_covered
    /\ Planned => \A k \in 1..(milestone_index - 1) : Served(k)

Stacked(k) ==
    /\ k \in 2..Len(milestones)
    /\ milestones[k].distance = milestones[k - 1].distance

\* C22: a milestone stacked at the distance of the one just served is
\* served right after it with no drive in between, or, when it does not
\* fit, on a later day; it is never dropped.
C22_StackedStops ==
    /\ Planned => \A k \in 1..(milestone_index - 1) :
                     (Stacked(k) /\ Served(k - 1)) => Served(k)
    /\ Done => \A k \in DOMAIN milestones :
                  (Stacked(k) /\ Served(k - 1)) => Served(k)
    /\ \A i, j \in DOMAIN segments :
          ( /\ i < j
            /\ segments[i].duty_status = "ON"
            /\ segments[j].duty_status = "ON"
            /\ segments[i].milestone_distance = segments[j].milestone_distance
            /\ segments[i].log_sheet_date = segments[j].log_sheet_date ) =>
          \A m \in i..j : segments[m].duty_status = "ON"

DropoffIndexes(segs) ==
    {i \in DOMAIN segs :
        segs[i].duty_status = "ON" /\ segs[i].remarks = "dropoff"}

\* C23: a plan for a positive distance ends with the dropoff: the day
\* loop is left only with the dropoff served, and the finished plan has
\* exactly one dropoff ON segment, followed by the trailing OFF segment
\* of its day and nothing else.
C23_EndsWithDropoff ==
    /\ (pc \in {"persist", "summarize", "done"} /\ total_distance_miles > 0) =>
          DropoffIndexes(segments) # {}
    /\ (Done /\ total_distance_miles > 0) =>
          /\ Cardinality(DropoffIndexes(stored)) = 1
          /\ \A i \in DropoffIndexes(stored) :
                /\ i = Len(stored) - 1
                /\ stored[Len(stored)].duty_status = "OFF"

DayBegins(ss) ==
    /\ Len(ss) >= 2
    /\ ss[1].duty_status = "OFF"
    /\ ss[1].start_time = 0
    /\ ss[1].end_time = 8 * 60
    /\ ss[2].duty_status \in {"DR", "ON"}
    /\ ss[2].start_time = 8 * 60

\* C24: every date of a plan begins with OFF 00:00-08:00 and its first
\* duty segment starts at 08:00 with a budget of 8.75 hours, whatever
\* the start time hint: the plans of requests that differ only in the
\* start time hint have the same segments.
C24_DayStartsAtEight ==
    /\ \A id \in DOMAIN log_entries :
          \A d \in Dates(log_entries[id]) :
             DayBegins(OfDate(log_entries[id], d))
    /\ ( /\ pc = "milestones"
         /\ segments # << >>
         /\ segments[Len(segments)].duty_status = "OFF" ) =>
          /\ remaining_time_today = (8 * 60 + 45) * TicksPerMinute
          /\ Clock(t) = 8 * 60
    /\ \A i, j \in DOMAIN trips :
          (Complete(i) /\ Complete(j)) => log_entries[i] = log_entries[j]

C24_Witness ==
    /\ Done
    /\ Len(trips) = 2
    /\ Complete(1)
    /\ trips[1].calculated_route_json[1].arrival.minute = 8 * 60
    /\ trips[2].calculated_route_json[1].arrival.minute = 13 * 60 + 45
    /\ Cardinality(Dates(log_entries[2])) >= 2

ProgressDates == {daily_progress[i].date : i \in DOMAIN daily_progress}

\* C25: a finished plan has exactly one DailyProgress snapshot for each
\* of its dates, in date order.
C25_OneSnapshotPerDay ==
    Done =>
      /\ Len(daily_progress) = Cardinality(Dates(stored))
      /\ ProgressDates = Dates(stored)
      /\ \A i, j \in DOMAIN daily_progress :
            i < j => daily_progress[i].date < daily_progress[j].date

\* C26: the day loop terminates, and every day that does not finish
\* the trip adds a strictly positive distance.
C26_DayLoopTerminates ==
    /\ <>(pc \in {"done", "error", "rejected"})
    /\ [][(pc = "off" /\ pc' = "dayloop") => daily_distance_covered > 0]_vars

C26_Witness ==
    /\ Done
    /\ req.has_pickup
    /\ start_to_pickup_miles > 0
    /\ start_to_pickup_miles < total_distance_miles
    /\ day_index >= 2

InOrder(segs) ==
    \A i \in 2..Len(segs) :
       \/ /\ segs[i].log_sheet_date = segs[i - 1].log_sheet_date
          /\ segs[i].start_time >= segs[i - 1].start_time
       \/ segs[i].log_sheet_date = segs[i - 1].log_sheet_date + 1

\* C27: the dates of a plan are consecutive calendar days from the
\* start date (the hinted date, or the current date without a hint),
\* none skipped or repeated, and the segments are emitted in
\* non-decreasing (date, start time) order.
C27_ConsecutiveDates ==
    /\ InOrder(segments)
    /\ segments # << >> =>
          segments[1].log_sheet_date =
            IF start_date_hint = NoHint THEN Today ELSE start_date_hint
    /\ Done => stored = segments

C27_Witness ==
    /\ Done
    /\ start_date_hint = Today + 3
    /\ Cardinality(Dates(stored)) >= 3
    /\ stored[Len(stored)].log_sheet_date =
          Today + 3 + Cardinality(Dates(stored)) - 1

RECURSIVE DailySum(_)
DailySum(i) ==
    IF i = 0 THEN 0 ELSE daily_progress[i].daily_distance + DailySum(i - 1)

\* C28: in a finished plan each snapshot's cumulative distance is the
\* sum of the daily distances up to it, each snapshot starts where the
\* previous one ended, and the last snapshot's cumulative distance is
\* the total route distance.
C28_ProgressConsistent ==
    (Done /\ daily_progress # << >>) =>
      /\ \A i \in DOMAIN daily_progress :
            daily_progress[i].cumulative_distance = DailySum(i)
      /\ \A i \in 2..Len(daily_progress) :
            daily_progress[i].start_location =
              daily_progress[i - 1].end_location
      /\ daily_progress[Len(daily_progress)].cumulative_distance =
            total_distance_miles
====
